---- MODULE Spec2Model ----
(***************************************************************************)
(* Model of scripts/plot_benches.py: the criterion report aggregator.      *)
(* One run is: makedirs(plots) -> listdir(root) filtered on "cmp_" ->      *)
(* load loop (split the name, read new/estimates.json) -> if data: one     *)
(* grid and one saved chart per entry of cmp_types.                        *)
(*                                                                         *)
(* Python's None / a failed lookup is the empty sequence, a present value  *)
(* v is <<v>>, so that absent cells and zero-valued cells stay distinct.   *)
(***************************************************************************)
EXTENDS Integers, Sequences, FiniteSets, TLC

VARIABLES
    rootExists,      \* file system: does target/criterion exist
    dirEntries,      \* file system: the names os.listdir(root) returns
    estimates,       \* file system: name -> median.point_estimate, None if unreadable
    barAcceptsNone,  \* plotting library: does plt.bar take a None height
    plotsDirExists,  \* file system: ./plots
    files,           \* file system: chart file name -> grid it was drawn from
    pc,              \* position of the script
    cmp_dirs,        \* the filtered listing the load loop iterates
    i,               \* position of the load loop in cmp_dirs
    data,            \* list of Bench records
    ti,              \* position of the render loop in cmp_types
    values,          \* the grid built last
    written,         \* chart files saved by the current run
    run,             \* number of the current run
    prevFiles,       \* files as the previous run left them
    prevWritten,     \* written as the previous run left it
    prevPc,          \* how the previous run ended
    prevDirs,        \* cmp_dirs of the previous run, kept until this run has listed
    reordered        \* this run's listing came in another order than the previous run's

vars == <<rootExists, dirEntries, estimates, barAcceptsNone, plotsDirExists, files,
          pc, cmp_dirs, i, data, ti, values, written, run, prevFiles, prevWritten,
          prevPc, prevDirs, reordered>>

env == <<rootExists, dirEntries, estimates, barAcceptsNone>>
hist == <<run, prevFiles, prevWritten, prevPc>>
last == <<prevDirs, reordered>>

-----------------------------------------------------------------------------
(* Bounds *)

MaxDir == 2      \* largest enumerated directory (the 32-entry one is added whole)
MaxRuns == 2     \* runs of the script over the unchanged input
MaxData == 2     \* longest record list handed to the pivot on its own

-----------------------------------------------------------------------------
(* The fixed lists *)

cmp_categories == << "simple", "var", "var&fn", "complex" >>
cmp_types == << "parse", "eval" >>
cmp_crates == << "fee", "fasteval", "meval", "evalexpr" >>

root == "target/criterion"
plots_dir == "./plots"

None == << >>
Some(v) == << v >>

Range(s) == { s[k] : k \in 1..Len(s) }

-----------------------------------------------------------------------------
(* String functions *)

\* str.startswith
StartsWith(s, p) == Len(s) >= Len(p) /\ SubSeq(s, 1, Len(p)) = p

RECURSIVE SplitFrom(_, _, _, _, _)
SplitFrom(s, sep, k, cur, acc) ==
    IF k > Len(s) THEN Append(acc, cur)
    ELSE IF SubSeq(s, k, k) = sep
         THEN SplitFrom(s, sep, k + 1, "", Append(acc, cur))
         ELSE SplitFrom(s, sep, k + 1, cur \o SubSeq(s, k, k), acc)

\* str.split(sep) for a one-character separator
Split(s, sep) == SplitFrom(s, sep, 1, "", << >>)

\* os.path.join(plots_dir, f"cmp_{t}_bench.png")
OutputFile(t) == plots_dir \o "/" \o "cmp_" \o t \o "_bench.png"

-----------------------------------------------------------------------------
(* The load loop's body *)

\* variant: the filter tests the prefix "cmp", without the underscore
CmpDirsLoosePrefix(listing) == SelectSeq(listing, LAMBDA d : StartsWith(d, "cmp"))

\* [d for d in os.listdir(root) if d.startswith("cmp_")]
CmpDirs(listing) == SelectSeq(listing, LAMBDA d : StartsWith(d, "cmp_"))

\* variant: extra segments are tolerated (_, type, crate, category, *rest = parts)
UnpacksLoose(parts) == Len(parts) >= 4

\* _, type, crate, category = parts  succeeds
Unpacks(parts) == Len(parts) = 4

\* variant: crate and category are unpacked in the other order
BenchSwapped(parts, value) ==
    [type |-> parts[2], crate |-> parts[4], category |-> parts[3], value |-> value]

\* variant: the category is taken from the crate's segment
BenchCategoryTypo(parts, value) ==
    [type |-> parts[2], crate |-> parts[3], category |-> parts[3], value |-> value]

\* Bench(type, crate, category, value)
Bench(parts, value) ==
    [type |-> parts[2], crate |-> parts[3], category |-> parts[4], value |-> value]

-----------------------------------------------------------------------------
(* The pivot *)

\* variant: the records are not filtered by type
SubsetAll(recs, t) == recs

\* subset = [d for d in data if d.type == t]
Subset(recs, t) == SelectSeq(recs, LAMBDA d : d.type = t)

\* variant: the last matching record is taken
NextMatchLast(subset, cat, crate) ==
    LET m == SelectSeq(subset, LAMBDA d : d.category = cat /\ d.crate = crate)
    IN  IF m = << >> THEN None ELSE Some(m[Len(m)])

\* variant: the crate is left out of the match
NextMatchAnyCrate(subset, cat, crate) ==
    LET m == SelectSeq(subset, LAMBDA d : d.category = cat)
    IN  IF m = << >> THEN None ELSE Some(Head(m))

\* next((d for d in subset if d.category == cat and d.crate == crate), None)
NextMatch(subset, cat, crate) ==
    LET m == SelectSeq(subset, LAMBDA d : d.category = cat /\ d.crate = crate)
    IN  IF m = << >> THEN None ELSE Some(Head(m))

\* variant: a missing record is charted as zero
CellZero(bench) == IF bench = None THEN Some(0) ELSE Some(bench[1].value)

\* bench.value if bench else None
Cell(bench) == IF bench = None THEN None ELSE Some(bench[1].value)

\* values: one row per category, one cell per crate
Grid(recs, t) ==
    [r \in 1..Len(cmp_categories) |->
        [c \in 1..Len(cmp_crates) |->
            Cell(NextMatch(Subset(recs, t), cmp_categories[r], cmp_crates[c]))]]

\* variant: the guard on an empty record list is missing
HasDataAlways(recs) == TRUE

\* if data:
HasData(recs) == recs # << >>

HasNone(grid) == \E r \in 1..Len(grid) : \E c \in 1..Len(grid[r]) : grid[r][c] = None

-----------------------------------------------------------------------------
(* Inputs: what the benchmarking harness may have left under root *)

NamePool ==
    { "cmp_eval_fee_simple", "cmp_parse_fee_simple", "cmp_eval_meval_var",
      "cmp_foo_fee_simple", "cmp_eval_fee_huge", "cmp_eval_exmex_var",
      "cmp_eval_fee", "cmp_parse_fee_var_fn", "cmpx_eval_fee_simple", "report" }

Values == { 0, 123 }

\* the directory name the harness gives a (type, crate, category) benchmark
DirName(t, crate, cat) == "cmp_" \o t \o "_" \o crate \o "_" \o cat

NTypes == Len(cmp_types)
NCrates == Len(cmp_crates)
NCats == Len(cmp_categories)

\* one entry per category x implementation x measurement-type
FullGridSeq ==
    [k \in 1..(NTypes * NCrates * NCats) |->
        DirName(cmp_types[((k - 1) \div (NCrates * NCats)) + 1],
                cmp_crates[(((k - 1) \div NCats) % NCrates) + 1],
                cmp_categories[((k - 1) % NCats) + 1])]

FullGridSet == Range(FullGridSeq)

Reverse(s) == [k \in 1..Len(s) |-> s[Len(s) + 1 - k]]

\* the complete directory, alone and next to a benchmark of another type
Stray == "cmp_foo_fee_simple"
BigDirs == { FullGridSet, FullGridSet \cup { Stray } }

Dirs == { S \in SUBSET NamePool : Cardinality(S) <= MaxDir } \cup BigDirs

EstimatesFor(S) ==
    IF S \in BigDirs
    THEN { [n \in S |-> Some(Len(n))] }
    ELSE { e \in [S -> { None } \cup { Some(v) : v \in Values }] :
             \A n \in S : ~StartsWith(n, "cmp_") => e[n] = None }

\* the orders os.listdir may return the entries in
Orders(S) ==
    IF S = FullGridSet
    THEN { FullGridSeq, Reverse(FullGridSeq) }
    ELSE IF S \in BigDirs
    THEN { << Stray >> \o FullGridSeq, Reverse(FullGridSeq) \o << Stray >> }
    ELSE { s \in [1..Cardinality(S) -> S] : \A a, b \in 1..Cardinality(S) : s[a] = s[b] => a = b }

-----------------------------------------------------------------------------
(* The script *)

Fresh ==
    /\ pc = "makedirs"
    /\ cmp_dirs = << >>
    /\ i = 1
    /\ data = << >>
    /\ ti = 1
    /\ values = << >>
    /\ written = { }

Init ==
    /\ rootExists \in BOOLEAN
    /\ dirEntries \in (IF rootExists THEN Dirs ELSE { { } })
    /\ estimates \in EstimatesFor(dirEntries)
    /\ barAcceptsNone \in BOOLEAN
    /\ plotsDirExists \in BOOLEAN
    /\ files = << >>
    /\ Fresh
    /\ run = 1
    /\ prevFiles = << >>
    /\ prevWritten = { }
    /\ prevPc = "none"
    /\ prevDirs = << >>
    /\ reordered = FALSE

\* os.makedirs(plots_dir, exist_ok=True)
MakeDirs ==
    /\ pc = "makedirs"
    /\ plotsDirExists' = TRUE
    /\ pc' = "listdir"
    /\ UNCHANGED <<env, hist, last, files, cmp_dirs, i, data, ti, values, written>>

\* os.listdir(root) on a missing root raises FileNotFoundError
ListDirFail ==
    /\ pc = "listdir"
    /\ ~rootExists
    /\ pc' = "error"
    /\ UNCHANGED <<env, hist, last, plotsDirExists, files, cmp_dirs, i, data, ti, values, written>>

ListDir ==
    /\ pc = "listdir"
    /\ rootExists
    /\ \E listing \in Orders(dirEntries) : cmp_dirs' = CmpDirs(listing)
    /\ i' = 1
    /\ data' = << >>
    /\ pc' = "load"
    /\ reordered' = (run > 1 /\ cmp_dirs' # prevDirs)
    /\ prevDirs' = << >>
    /\ UNCHANGED <<env, hist, plotsDirExists, files, ti, values, written>>

\* _, type, crate, category = parts  raises ValueError
UnpackFail ==
    /\ pc = "load"
    /\ i <= Len(cmp_dirs)
    /\ ~Unpacks(Split(cmp_dirs[i], "_"))
    /\ pc' = "error"
    /\ UNCHANGED <<env, hist, last, plotsDirExists, files, cmp_dirs, i, data, ti, values, written>>

\* load_json(...)["median"]["point_estimate"] raises
LoadJsonFail ==
    /\ pc = "load"
    /\ i <= Len(cmp_dirs)
    /\ Unpacks(Split(cmp_dirs[i], "_"))
    /\ estimates[cmp_dirs[i]] = None
    /\ pc' = "error"
    /\ UNCHANGED <<env, hist, last, plotsDirExists, files, cmp_dirs, i, data, ti, values, written>>

LoadEntry ==
    /\ pc = "load"
    /\ i <= Len(cmp_dirs)
    /\ LET parts == Split(cmp_dirs[i], "_")
       IN  /\ Unpacks(parts)
           /\ estimates[cmp_dirs[i]] # None
           /\ data' = Append(data, Bench(parts, estimates[cmp_dirs[i]][1]))
    /\ i' = i + 1
    /\ UNCHANGED <<env, hist, last, plotsDirExists, files, pc, cmp_dirs, ti, values, written>>

\* if data: is false
NoData ==
    /\ pc = "load"
    /\ i > Len(cmp_dirs)
    /\ ~HasData(data)
    /\ pc' = "done"
    /\ UNCHANGED <<env, hist, last, plotsDirExists, files, cmp_dirs, i, data, ti, values, written>>

StartRender ==
    /\ pc = "load"
    /\ i > Len(cmp_dirs)
    /\ HasData(data)
    /\ ti' = 1
    /\ pc' = "render"
    /\ UNCHANGED <<env, hist, last, plotsDirExists, files, cmp_dirs, i, data, values, written>>

\* plt.bar on a column holding None, where the library refuses it
BarFail ==
    /\ pc = "render"
    /\ ti <= Len(cmp_types)
    /\ values' = Grid(data, cmp_types[ti])
    /\ HasNone(values')
    /\ ~barAcceptsNone
    /\ pc' = "error"
    /\ UNCHANGED <<env, hist, last, plotsDirExists, files, cmp_dirs, i, data, ti, written>>

\* one iteration of  for t in cmp_types:  up to plt.savefig
RenderChart ==
    /\ pc = "render"
    /\ ti <= Len(cmp_types)
    /\ values' = Grid(data, cmp_types[ti])
    /\ HasNone(values') => barAcceptsNone
    /\ LET output_file == OutputFile(cmp_types[ti])
       IN  /\ files' = [f \in DOMAIN files \cup { output_file } |->
                          IF f = output_file THEN values' ELSE files[f]]
           /\ written' = written \cup { output_file }
    /\ ti' = ti + 1
    /\ UNCHANGED <<env, hist, last, plotsDirExists, cmp_dirs, i, data, pc>>

Finish ==
    /\ pc = "render"
    /\ ti > Len(cmp_types)
    /\ pc' = "done"
    /\ UNCHANGED <<env, hist, last, plotsDirExists, files, cmp_dirs, i, data, ti, values, written>>

\* the script is started again over the unchanged input
Rerun ==
    /\ pc \in { "done", "error" }
    /\ run < MaxRuns
    /\ run' = run + 1
    /\ prevFiles' = files
    /\ prevWritten' = written
    /\ prevPc' = pc
    /\ prevDirs' = cmp_dirs
    /\ reordered' = FALSE
    /\ pc' = "makedirs"
    /\ cmp_dirs' = << >>
    /\ i' = 1
    /\ data' = << >>
    /\ ti' = 1
    /\ values' = << >>
    /\ written' = { }
    /\ UNCHANGED <<env, plotsDirExists, files>>

Next ==
    \/ MakeDirs
    \/ ListDirFail
    \/ ListDir
    \/ UnpackFail
    \/ LoadJsonFail
    \/ LoadEntry
    \/ NoData
    \/ StartRender
    \/ BarFail
    \/ RenderChart
    \/ Finish
    \/ Rerun

Spec == Init /\ [][Next]_vars

-----------------------------------------------------------------------------
(* The pivot on its own: lines 36-80 over any bounded record list *)

RecPool ==
    { [type |-> t, crate |-> cr, category |-> cat, value |-> v] :
        t \in { "parse", "eval" }, cr \in { "fee", "meval" },
        cat \in { "simple", "var" }, v \in Values }

RecLists == UNION { [1..n -> RecPool] : n \in 0..MaxData }

InitLookup ==
    /\ rootExists = TRUE
    /\ dirEntries = { }
    /\ estimates = << >>
    /\ barAcceptsNone \in BOOLEAN
    /\ plotsDirExists = TRUE
    /\ files = << >>
    /\ pc = "load"
    /\ cmp_dirs = << >>
    /\ i = 1
    /\ data \in RecLists
    /\ ti = 1
    /\ values = << >>
    /\ written = { }
    /\ run = 1
    /\ prevFiles = << >>
    /\ prevWritten = { }
    /\ prevPc = "none"
    /\ prevDirs = << >>
    /\ reordered = FALSE

NextLookup ==
    \/ NoData
    \/ StartRender
    \/ BarFail
    \/ RenderChart
    \/ Finish

SpecLookup == InitLookup /\ [][NextLookup]_vars

-----------------------------------------------------------------------------
(* Vocabulary of the properties *)

\* positions of the loaded records with the triple (t, crate, cat)
Matching(t, crate, cat) ==
    { j \in 1..Len(data) :
        data[j].type = t /\ data[j].crate = crate /\ data[j].category = cat }

TypesObserved == { data[j].type : j \in 1..Len(data) }

Min(S) == CHOOSE x \in S : \A y \in S : x <= y
Max(S) == CHOOSE x \in S : \A y \in S : x >= y

\* a qualifying entry whose processing fails
EntryFails(n) ==
    /\ StartsWith(n, "cmp_")
    /\ Len(Split(n, "_")) # 4 \/ estimates[n] = None

ParseChart == "./plots/cmp_parse_bench.png"
EvalChart == "./plots/cmp_eval_bench.png"

InLists(d) ==
    /\ d.type \in { "parse", "eval" }
    /\ d.crate \in { "fee", "fasteval", "meval", "evalexpr" }
    /\ d.category \in { "simple", "var", "var&fn", "complex" }

TypeOf(f) == IF f = ParseChart THEN "parse" ELSE "eval"

-----------------------------------------------------------------------------
(* C1 *)

\* C1 as stated: after a completed run the number of chart files written
\* equals the number of distinct measurement-types among the loaded records.
C1_ChartsPerObservedType ==
    pc = "done" => Cardinality(written) = Cardinality(TypesObserved)

\* C1 amended: after a completed run no chart is written when no record was
\* loaded, and otherwise exactly one chart per entry of the fixed list
\* cmp_types (parse and eval) is written, whichever types were observed.
C1_ChartsPerFixedType ==
    pc = "done" =>
        /\ data = << >> => written = { }
        /\ data # << >> => written = { ParseChart, EvalChart }
        /\ Cardinality(written) = (IF data = << >> THEN 0 ELSE Len(cmp_types))

\* a completed run that charted both types although no parse record was loaded
C1_Witness ==
    /\ pc = "done"
    /\ data # << >>
    /\ "parse" \notin TypesObserved
    /\ ParseChart \in written
    /\ Cardinality(written) = 2

-----------------------------------------------------------------------------
(* C2 *)

\* C2 as stated: when the root directory does not exist the run raises no
\* error.
C2_MissingRootIsBenign == ~rootExists => pc # "error"

-----------------------------------------------------------------------------
(* C3 *)

\* C3: when root exists and holds no entry starting with "cmp_", the run
\* loads nothing, writes no chart and never raises.
C3_NoQualifyingEntry ==
    (rootExists /\ \A n \in dirEntries : ~StartsWith(n, "cmp_")) =>
        /\ pc \in { "makedirs", "listdir", "load", "done" }
        /\ pc = "load" => i > Len(cmp_dirs)
        /\ data = << >>
        /\ written = { }
        /\ files = << >>

\* a run over a directory of non-qualifying entries only has completed
C3_Witness ==
    /\ pc = "done"
    /\ rootExists
    /\ "cmpx_eval_fee_simple" \in dirEntries
    /\ \A n \in dirEntries : ~StartsWith(n, "cmp_")
    /\ written = { }

-----------------------------------------------------------------------------
(* C4 *)

\* C4: in every chart written, the cell at (row cat, column crate) holds the
\* value of the loaded record with the triple (t, crate, cat) when there is
\* one and is None, never 0, when there is none.
C4_CellsMatchRecords ==
    \A f \in written :
        \A r \in 1..4 : \A c \in 1..4 :
            LET M == Matching(TypeOf(f), cmp_crates[c], cmp_categories[r])
            IN  /\ M = { } => files[f][r][c] = None
                /\ \A j \in M : files[f][r][c] = Some(data[j].value)

\* the record ("eval", "fee", "simple", 123) sits in the eval grid at row
\* simple, column fee, next to an absent cell
C4_Witness ==
    /\ EvalChart \in written
    /\ \E j \in 1..Len(data) :
         data[j] = [type |-> "eval", crate |-> "fee", category |-> "simple", value |-> 123]
    /\ files[EvalChart][1][1] = Some(123)
    /\ files[EvalChart][1][2] = None

-----------------------------------------------------------------------------
(* C5 *)

\* C5: when any qualifying entry fails (not four segments, or an unreadable
\* estimate), the run never gets past the load loop and no chart is written;
\* every entry is loaded before the first chart is saved.
C5_FailureBeforeAnyChart ==
    /\ (\E n \in dirEntries : EntryFails(n)) =>
          /\ pc \in { "makedirs", "listdir", "load", "error" }
          /\ written = { }
          /\ files = << >>
    /\ written # { } => i > Len(cmp_dirs) /\ Len(data) = Len(cmp_dirs)
    /\ (pc = "error" /\ i <= Len(cmp_dirs)) => written = { }

\* the run aborted on a later entry after a record had been loaded
C5_Witness ==
    /\ pc = "error"
    /\ Len(data) >= 1
    /\ i <= Len(cmp_dirs)
    /\ EntryFails(cmp_dirs[i])
    /\ written = { }

-----------------------------------------------------------------------------
(* C6 *)

-----------------------------------------------------------------------------
(* C7 *)

\* C7: a further run over the unchanged input leaves the chart files as the
\* previous run left them and ends the same way with the same files written,
\* whatever order the listing comes in.
C7_Idempotent ==
    run > 1 =>
        /\ files = prevFiles
        /\ pc \in { "done", "error" } => written = prevWritten /\ pc = prevPc

\* a second run completed over a listing in another order than the first
C7_Witness ==
    /\ run = 2
    /\ pc = "done"
    /\ Len(data) >= 2
    /\ reordered
    /\ written # { }

-----------------------------------------------------------------------------
(* C8 *)

\* C8: over the 32 entries of the complete directory the run raises nothing,
\* and once completed has written exactly the two charts, without an absent
\* cell in either 4x4 grid.
C8_FullGrid ==
    dirEntries = FullGridSet =>
        /\ pc # "error"
        /\ pc = "done" =>
              /\ Len(data) = 32
              /\ written = { ParseChart, EvalChart }
              /\ Cardinality(written) = 2
              /\ \A f \in written :
                    /\ Len(files[f]) = 4
                    /\ \A r \in 1..4 :
                          /\ Len(files[f][r]) = 4
                          /\ \A c \in 1..4 : files[f][r][c] # None

\* the run over the complete directory has completed
C8_Witness ==
    /\ dirEntries = FullGridSet
    /\ pc = "done"
    /\ ~barAcceptsNone
    /\ Cardinality(written) = 2

-----------------------------------------------------------------------------
(* C9 *)

\* C9: the only chart files are cmp_parse_bench.png and cmp_eval_bench.png,
\* every grid is 4 rows (simple, var, var&fn, complex) by 4 columns (fee,
\* fasteval, meval, evalexpr), each filled cell comes from a record of the
\* chart's type at that row and column, and the records outside the fixed
\* lists change no cell.
C9_FixedListsOnly ==
    /\ DOMAIN files \subseteq { ParseChart, EvalChart }
    /\ written \subseteq DOMAIN files
    /\ values # << >> =>
          /\ Len(values) = 4
          /\ \A r \in 1..4 : Len(values[r]) = 4
    /\ \A f \in written :
          /\ files[f] = Grid(SelectSeq(data, InLists), TypeOf(f))
          /\ \A r \in 1..4 : \A c \in 1..4 :
                files[f][r][c] # None =>
                    \E j \in 1..Len(data) :
                        /\ data[j].type = TypeOf(f)
                        /\ data[j].category = << "simple", "var", "var&fn", "complex" >>[r]
                        /\ data[j].crate = << "fee", "fasteval", "meval", "evalexpr" >>[c]
                        /\ files[f][r][c] = Some(data[j].value)

\* charts were written by a run that loaded a record of an unlisted type and
\* a record of an unlisted implementation
C9_Witness ==
    /\ pc = "done"
    /\ written # { }
    /\ \E j \in 1..Len(data) : data[j].type \notin Range(cmp_types)
    /\ \E j \in 1..Len(data) : data[j].crate \notin Range(cmp_crates)

-----------------------------------------------------------------------------
(* C10 *)

\* C10: at every point of the load loop and after it the loaded records have
\* pairwise distinct (type, crate, category) triples, so at most one record
\* matches a grid cell.
C10_DistinctTriples ==
    /\ \A a, b \in 1..Len(data) :
          ( /\ data[a].type = data[b].type
            /\ data[a].crate = data[b].crate
            /\ data[a].category = data[b].category ) => a = b
    /\ \A t \in Range(cmp_types) : \A cr \in Range(cmp_crates) :
          \A cat \in Range(cmp_categories) : Cardinality(Matching(t, cr, cat)) <= 1

\* two records of the same type and implementation have been loaded
C10_Witness ==
    /\ pc = "load"
    /\ Len(data) >= 2
    /\ data[1].type = data[2].type
    /\ data[1].crate = data[2].crate

====
